---- MODULE Spec2Model ----
(***************************************************************************)
(* A model of anneal_image (src/main.rs): the shape rasterizers            *)
(* get_triangle / get_rectangle, the candidate generator get_neighbor,     *)
(* the cost functions get_cost / update_cost and the annealing loop        *)
(* anneal.                                                                 *)
(*                                                                         *)
(* Arithmetic.  Every f64 value that the program converts to an integer    *)
(* (a scanline bound, the split vertex x4, a sample index) is computed     *)
(* here bit for bit: binary64, round to nearest, ties to even, on          *)
(* arbitrary-precision naturals kept in 15-bit limbs.  So are the cost     *)
(* (products, the quotient by w * h * 3, the square roots) and the         *)
(* temperature (the repeated product by alpha).  The uniform draw and exp  *)
(* of the acceptance test are a choice between the outcomes that the       *)
(* value of cost_diff / current_temp leaves possible.                      *)
(***************************************************************************)
EXTENDS Integers, Sequences, FiniteSets, TLC

VARIABLES
    original_image, \* anneal: the reference buffer, original_image[x][y]
    image,          \* anneal: the working buffer, image[x][y]
    alpha,          \* the cooling rate: [frac |-> <<p, q>>, f64 |-> p/q rounded]
    triangle,       \* draw triangles instead of rectangles
    sample,         \* None or Some(n)
    current_temp,   \* anneal: the temperature, an f64
    cost,           \* anneal: the running cost
    verts,          \* the vertices a shape is drawn from
    coords,         \* the candidate's coordinates
    new_color,      \* the candidate's color
    neighbor_cost,  \* the value update_cost returned
    accepted,       \* whether the last candidate was committed
    iters,          \* the number of loop bodies completed
    pc              \* the control point

vars == <<original_image, image, alpha, triangle, sample, current_temp, cost,
          verts, coords, new_color, neighbor_cost, accepted, iters, pc>>

(***************************************************************************)
(* Arbitrary-precision naturals: little-endian sequences of limbs, no      *)
(* leading zero limb, <<>> is zero.                                        *)
(***************************************************************************)
LimbBits == 15

LimbBase == 32768

RECURSIVE Pow2(_)
Pow2(n) == IF n = 0 THEN 1 ELSE 2 * Pow2(n - 1)

Abs(i) == IF i < 0 THEN -i ELSE i

Min(a, b) == IF a < b THEN a ELSE b

RECURSIVE NatTrim(_)
NatTrim(A) ==
    IF A = <<>> THEN <<>>
    ELSE IF A[Len(A)] = 0 THEN NatTrim(SubSeq(A, 1, Len(A) - 1)) ELSE A

RECURSIVE NatOfInt(_)
NatOfInt(k) == IF k = 0 THEN <<>> ELSE <<k % LimbBase>> \o NatOfInt(k \div LimbBase)

RECURSIVE NatToInt(_)
NatToInt(A) == IF A = <<>> THEN 0 ELSE A[1] + LimbBase * NatToInt(Tail(A))

NatRest(A) == IF A = <<>> THEN <<>> ELSE Tail(A)

NatLow(A) == IF A = <<>> THEN 0 ELSE A[1]

RECURSIVE NatAddC(_, _, _)
NatAddC(A, B, c) ==
    IF A = <<>> /\ B = <<>> THEN (IF c = 0 THEN <<>> ELSE <<c>>)
    ELSE LET t == NatLow(A) + NatLow(B) + c
         IN  <<t % LimbBase>> \o NatAddC(NatRest(A), NatRest(B), t \div LimbBase)

NatAdd(A, B) == NatAddC(A, B, 0)

RECURSIVE NatSubB(_, _, _)
NatSubB(A, B, b) ==
    IF A = <<>> THEN <<>>
    ELSE LET t == NatLow(A) - NatLow(B) - b
         IN  IF t < 0 THEN <<t + LimbBase>> \o NatSubB(Tail(A), NatRest(B), 1)
             ELSE <<t>> \o NatSubB(Tail(A), NatRest(B), 0)

\* A - B for A >= B
NatSub(A, B) == NatTrim(NatSubB(A, B, 0))

RECURSIVE NatCmpFrom(_, _, _)
NatCmpFrom(A, B, i) ==
    IF i = 0 THEN 0
    ELSE IF A[i] > B[i] THEN 1
    ELSE IF A[i] < B[i] THEN -1
    ELSE NatCmpFrom(A, B, i - 1)

\* -1, 0, 1 as A <, =, > B
NatCmp(A, B) ==
    IF Len(A) > Len(B) THEN 1
    ELSE IF Len(A) < Len(B) THEN -1
    ELSE NatCmpFrom(A, B, Len(A))

RECURSIVE NatMulSmallC(_, _, _)
NatMulSmallC(A, k, c) ==
    IF A = <<>> THEN NatOfInt(c)
    ELSE LET t == A[1] * k + c
         IN  <<t % LimbBase>> \o NatMulSmallC(Tail(A), k, t \div LimbBase)

\* A * k for 0 <= k <= LimbBase
NatMulSmall(A, k) == IF k = 0 THEN <<>> ELSE NatMulSmallC(A, k, 0)

RECURSIVE NatMul(_, _)
NatMul(A, B) ==
    IF B = <<>> \/ A = <<>> THEN <<>>
    ELSE NatAdd(NatMulSmall(A, B[1]), NatTrim(<<0>> \o NatMul(A, Tail(B))))

\* rest is the division of the low limbs, t \div k the quotient limb above them
NatDivStep(rest, q) == [q |-> Append(rest.q, q), r |-> rest.r]

\* quotient limbs and remainder of (r * LimbBase^i + A[1..i]) / k, 0 < k <= LimbBase
RECURSIVE NatDivSmallFrom(_, _, _, _)
NatDivSmallFrom(A, k, i, r) ==
    IF i = 0 THEN [q |-> <<>>, r |-> r]
    ELSE NatDivStep(NatDivSmallFrom(A, k, i - 1, (r * LimbBase + A[i]) % k),
                    (r * LimbBase + A[i]) \div k)

NatDivTrim(d) == [q |-> NatTrim(d.q), r |-> d.r]

NatDivSmall(A, k) == NatDivTrim(NatDivSmallFrom(A, k, Len(A), 0))

Zeros(n) == [i \in 1..n |-> 0]

\* A * 2^n
NatShl(A, n) ==
    IF A = <<>> THEN <<>>
    ELSE Zeros(n \div LimbBits) \o NatMulSmall(A, Pow2(n % LimbBits))

\* floor(A / 2^n)
NatShr(A, n) ==
    IF n \div LimbBits >= Len(A) THEN <<>>
    ELSE NatDivSmall(SubSeq(A, n \div LimbBits + 1, Len(A)), Pow2(n % LimbBits)).q

RECURSIVE IntBitLen(_)
IntBitLen(k) == IF k = 0 THEN 0 ELSE 1 + IntBitLen(k \div 2)

NatBitLen(A) == IF A = <<>> THEN 0 ELSE LimbBits * (Len(A) - 1) + IntBitLen(A[Len(A)])

NatIsOdd(A) == A # <<>> /\ A[1] % 2 = 1

(***************************************************************************)
(* f64: [k |-> "fin", s, m, e] is (-1)^s * m * 2^e with m of exactly       *)
(* MantissaBits bits, or m = <<>> for zero; [k |-> "inf", s]; [k |-> "nan"]*)
(* The exponent range is not modelled (no value here leaves it).           *)
(***************************************************************************)
MantissaBits == 53

F64Zero == [k |-> "fin", s |-> 0, m |-> <<>>, e |-> 0]

F64NaN == [k |-> "nan", s |-> 0, m |-> <<>>, e |-> 0]

F64Inf(s) == [k |-> "inf", s |-> s, m |-> <<>>, e |-> 0]

\* the mantissa q of MantissaBits bits or, after a carry, one more
F64Pack(s, q, e) ==
    IF NatBitLen(q) > MantissaBits
    THEN [k |-> "fin", s |-> s, m |-> NatShr(q, 1), e |-> e + 1]
    ELSE [k |-> "fin", s |-> s, m |-> q, e |-> e]

\* q or q + 1: c is -1, 0, 1 as the dropped bits are below, at, above half a unit
F64RoundUp(q, c) == IF c > 0 \/ (c = 0 /\ NatIsOdd(q)) THEN NatAdd(q, <<1>>) ELSE q

\* M of more than MantissaBits bits, d of them dropped, q == floor(M / 2^d)
F64Narrow(s, M, e, d, q) ==
    F64Pack(s, F64RoundUp(q, NatCmp(NatSub(M, NatShl(q, d)), NatShl(<<1>>, d - 1))), e + d)

\* len is the bit length of M
F64Scale(s, M, e, len) ==
    IF len = 0 THEN F64Zero
    ELSE IF len <= MantissaBits
    THEN [k |-> "fin", s |-> s, m |-> NatShl(M, MantissaBits - len),
          e |-> e - (MantissaBits - len)]
    ELSE F64Narrow(s, M, e, len - MantissaBits, NatShr(M, len - MantissaBits))

\* the f64 nearest to (-1)^s * M * 2^e, ties to even
F64Round(s, M, e) == F64Scale(s, M, e, NatBitLen(M))

\* `i as f64` for an integer of magnitude below 2^31
F64FromInt(i) == F64Round(IF i < 0 THEN 1 ELSE 0, NatOfInt(Abs(i)), 0)

F64Neg(x) == [x EXCEPT !.s = 1 - x.s]

\* X * 2^e and Y * 2^e with signs xs and ys; c is -1, 0, 1 as X <, =, > Y
F64AddAligned(xs, X, ys, Y, e, c) ==
    F64Round(IF xs = ys \/ c > 0 THEN xs ELSE IF c < 0 THEN ys ELSE 0,
             IF xs = ys THEN NatAdd(X, Y) ELSE IF c >= 0 THEN NatSub(X, Y) ELSE NatSub(Y, X),
             e)

F64AddFinite(xs, X, ys, Y, e) == F64AddAligned(xs, X, ys, Y, e, NatCmp(X, Y))

F64Add(x, y) ==
    IF x.k = "nan" \/ y.k = "nan" THEN F64NaN
    ELSE IF x.k = "inf" /\ y.k = "inf" THEN (IF x.s = y.s THEN x ELSE F64NaN)
    ELSE IF x.k = "inf" THEN x
    ELSE IF y.k = "inf" THEN y
    ELSE IF x.m = <<>> THEN (IF y.m = <<>> THEN F64Zero ELSE y)
    ELSE IF y.m = <<>> THEN x
    ELSE F64AddFinite(x.s, NatShl(x.m, x.e - Min(x.e, y.e)),
                      y.s, NatShl(y.m, y.e - Min(x.e, y.e)), Min(x.e, y.e))

F64Sub(x, y) == F64Add(x, F64Neg(y))

F64Mul(x, y) ==
    LET s == (x.s + y.s) % 2
    IN  IF x.k = "nan" \/ y.k = "nan" THEN F64NaN
        ELSE IF x.k = "inf" \/ y.k = "inf"
        THEN (IF (x.k = "fin" /\ x.m = <<>>) \/ (y.k = "fin" /\ y.m = <<>>)
              THEN F64NaN ELSE F64Inf(s))
        ELSE IF x.m = <<>> \/ y.m = <<>> THEN F64Zero
        ELSE F64Round(s, NatMul(x.m, y.m), x.e + y.e)

\* d is the quotient q and the remainder r of a division scaled by 2^(-e - 1); the
\* remainder is a sticky bit below the quotient
F64DivRound(s, d, e) ==
    F64Round(s, NatAdd(NatShl(d.q, 1), IF d.r = 0 THEN <<>> ELSE <<1>>), e)

\* (a as f64) / (b as f64) for integers a, b with |a| < 2^31, |b| <= LimbBase
F64DivInt(a, b) ==
    IF b = 0 THEN (IF a = 0 THEN F64NaN ELSE F64Inf(IF a < 0 THEN 1 ELSE 0))
    ELSE IF a = 0 THEN F64Zero
    ELSE F64DivRound(IF (a < 0) # (b < 0) THEN 1 ELSE 0,
                     NatDivSmall(NatShl(NatOfInt(Abs(a)), 75), Abs(b)), -76)

\* x / (n as f64) for a finite x and an integer 0 < n <= LimbBase
F64DivSmall(x, n) ==
    IF x.m = <<>> THEN F64Zero
    ELSE F64DivRound(x.s, NatDivSmall(NatShl(x.m, 22), n), x.e - 23)

RECURSIVE ISqrtIn(_, _, _)
ISqrtIn(n, lo, hi) ==
    IF lo >= hi THEN lo
    ELSE IF ((lo + hi + 1) \div 2) * ((lo + hi + 1) \div 2) <= n
    THEN ISqrtIn(n, (lo + hi + 1) \div 2, hi)
    ELSE ISqrtIn(n, lo, ((lo + hi + 1) \div 2) - 1)

\* floor(sqrt(n)) for 0 <= n < LimbBase^2
ISqrt(n) == ISqrtIn(n, 0, LimbBase - 1)

NatLimb(A, j) == IF j > Len(A) THEN 0 ELSE A[j]

\* the largest digit e <= d with (root2 * LimbBase + e) * e <= rem
RECURSIVE NatSqrtDigitFrom(_, _, _)
NatSqrtDigitFrom(root2, rem, d) ==
    IF d = 0 \/ NatCmp(NatMulSmall(<<d>> \o root2, d), rem) <= 0 THEN d
    ELSE NatSqrtDigitFrom(root2, rem, d - 1)

\* a digit not below rem / (root2 * LimbBase), from the bits of both above bit t
NatSqrtDigitBound(root2, rem, t) ==
    Min(LimbBase - 1,
        (NatToInt(NatShr(rem, t)) + 1) \div NatToInt(NatShr(<<0>> \o root2, t)))

\* the next digit of the root: root2 is twice the digits found, rem the remainder
\* with the next two limbs brought down
NatSqrtDigit(root2, rem) ==
    IF NatCmp(rem, <<0>> \o root2) < 0 THEN 0
    ELSE NatSqrtDigitFrom(root2, rem,
             NatSqrtDigitBound(root2, rem,
                               IF NatBitLen(rem) > 30 THEN NatBitLen(rem) - 30 ELSE 0))

\* [root, rem] with root = floor(sqrt(N)) and rem = N - root^2, a digit of the root
\* for every two limbs of N, i pairs of limbs yet to be brought down
RECURSIVE NatSqrtPairs(_, _, _, _)
RECURSIVE NatSqrtNext(_, _, _, _)
RECURSIVE NatSqrtTake(_, _, _, _, _)
NatSqrtPairs(N, i, root, rem) ==
    IF i = 0 THEN [root |-> root, rem |-> rem]
    ELSE NatSqrtNext(N, i, root, NatTrim(<<NatLimb(N, 2 * i - 1), NatLimb(N, 2 * i)>> \o rem))

NatSqrtNext(N, i, root, rem) ==
    NatSqrtTake(N, i, root, rem,
                IF root = <<>> THEN ISqrt(NatToInt(rem))
                ELSE NatSqrtDigit(NatMulSmall(root, 2), rem))

NatSqrtTake(N, i, root, rem, d) ==
    NatSqrtPairs(N, i - 1, NatTrim(<<d>> \o root),
                 NatSub(rem, NatMulSmall(NatTrim(<<d>> \o NatMulSmall(root, 2)), d)))

NatSqrt(N) == NatSqrtPairs(N, (Len(N) + 1) \div 2, <<>>, <<>>)

\* d is the root and remainder of the scaled mantissa; a remainder is a sticky bit
F64SqrtRound(d, e) ==
    F64Round(0, NatAdd(NatMulSmall(d.root, 2), IF d.rem = <<>> THEN <<>> ELSE <<1>>), e)

\* x.sqrt() for a finite x >= 0
F64Sqrt(x) ==
    IF x.m = <<>> THEN F64Zero
    ELSE F64SqrtRound(NatSqrt(NatShl(x.m, 66 + (x.e % 2))),
                      ((x.e - 66 - (x.e % 2)) \div 2) - 1)

\* x < 0.0
F64IsNegative(x) == x.s = 1 /\ (x.k = "inf" \/ (x.k = "fin" /\ x.m # <<>>))

\* x > 0.0
F64IsPositive(x) == x.s = 0 /\ (x.k = "inf" \/ (x.k = "fin" /\ x.m # <<>>))

\* floor of |x| for a finite x of small magnitude
F64Floor(x) ==
    IF x.m = <<>> THEN 0
    ELSE NatToInt(NatShr(NatShl(x.m, IF x.e > 0 THEN x.e ELSE 0), IF x.e < 0 THEN -x.e ELSE 0))

\* `x as usize`: NaN to 0, negative values saturate to 0 (+inf does not occur)
F64ToUsize(x) == IF x.k # "fin" \/ x.s = 1 THEN 0 ELSE F64Floor(x)

\* `x as i64`: truncation toward zero, NaN to 0
F64ToI64(x) == IF x.k # "fin" THEN 0 ELSE (1 - 2 * x.s) * F64Floor(x)

(***************************************************************************)
(* Shape rasterizer.  A point is <<x, y>>: p[1] is Rust's p.0, p[2] is p.1 *)
(***************************************************************************)
\* v1 sorts after v2 in (y, x) order
VertexAfter(v1, v2) == v1[2] > v2[2] \/ (v1[2] = v2[2] /\ v1[1] > v2[1])

sort_vertices(v) ==
    LET a == IF VertexAfter(v[1], v[2]) THEN <<v[2], v[1], v[3]>> ELSE v
        b == IF VertexAfter(a[2], a[3]) THEN <<a[1], a[3], a[2]>> ELSE a
    IN  IF VertexAfter(b[1], b[2]) THEN <<b[2], b[1], b[3]>> ELSE b

\* a row that runs one pixel past x2: (x1..=x2 + 1)
SpanWide(x1, x2, y) == IF x1 > x2 THEN <<>> ELSE [i \in 1..(x2 - x1 + 2) |-> <<x1 + i - 1, y>>]

\* (x1..=x2).map(|x| (x, y)); empty when x1 > x2
Span(x1, x2, y) == IF x1 > x2 THEN <<>> ELSE [i \in 1..(x2 - x1 + 1) |-> <<x1 + i - 1, y>>]

\* rows y, y+1, ..., ylast of the flat-bottom walk
RECURSIVE FlatBottomRows(_, _, _, _, _, _)
FlatBottomRows(y, ylast, curx1, curx2, invslope1, invslope2) ==
    IF y > ylast THEN <<>>
    ELSE Span(F64ToUsize(curx1), F64ToUsize(curx2), y)
         \o FlatBottomRows(y + 1, ylast, F64Add(curx1, invslope1),
                           F64Add(curx2, invslope2), invslope1, invslope2)

flat_bottom_triangle(v) ==
    LET v1 == v[1]
        v2 == v[2]
        v3 == v[3]
        invslope1 == F64DivInt(v2[1] - v1[1], v2[2] - v1[2])
        invslope2 == F64DivInt(v3[1] - v1[1], v3[2] - v1[2])
    IN  FlatBottomRows(v1[2], v2[2], F64FromInt(v1[1]), F64FromInt(v1[1]),
                       invslope1, invslope2)

\* rows y, y-1, ..., yfirst of the flat-top walk
RECURSIVE FlatTopRows(_, _, _, _, _, _)
FlatTopRows(y, yfirst, curx1, curx2, invslope1, invslope2) ==
    IF y < yfirst THEN <<>>
    ELSE Span(F64ToUsize(curx1), F64ToUsize(curx2), y)
         \o FlatTopRows(y - 1, yfirst, F64Sub(curx1, invslope1),
                        F64Sub(curx2, invslope2), invslope1, invslope2)

flat_top_triangle(v) ==
    LET v1 == v[1]
        v2 == v[2]
        v3 == v[3]
        invslope1 == F64DivInt(v3[1] - v1[1], v3[2] - v1[2])
        invslope2 == F64DivInt(v3[1] - v2[1], v3[2] - v2[2])
    IN  FlatTopRows(v3[2], v1[2] + 1, F64FromInt(v3[1]), F64FromInt(v3[1]),
                    invslope1, invslope2)

\* x of the split vertex: (vt1.0 + ((vt2.1 - vt1.1) / (vt3.1 - vt1.1)) * (vt3.0 - vt1.0)) as i64
SplitX(vt1, vt2, vt3) ==
    F64ToI64(F64Add(F64FromInt(vt1[1]),
                    F64Mul(F64DivInt(vt2[2] - vt1[2], vt3[2] - vt1[2]),
                           F64FromInt(vt3[1] - vt1[1]))))

\* the coordinates of get_triangle; its color is drawn by the caller's action
get_triangle(vertices) ==
    LET vs  == sort_vertices(vertices)
        vt1 == vs[1]
        vt2 == vs[2]
        vt3 == vs[3]
        vt4 == <<SplitX(vt1, vt2, vt3), vt2[2]>>
    IN  IF vt2[2] = vt3[2] THEN flat_bottom_triangle(vs)
        ELSE IF vt1[2] = vt2[2] THEN flat_top_triangle(vs)
        ELSE flat_bottom_triangle(sort_vertices(<<vt1, vt2, vt4>>))
             \o flat_top_triangle(sort_vertices(<<vt2, vt4, vt3>>))

\* a rectangle over the closed ranges top_left.0..=bottom_right.0 and
\* top_left.1..=bottom_right.1
get_rectangle_inclusive(top_left, bottom_right) ==
    LET nx == bottom_right[1] - top_left[1] + 1
        ny == bottom_right[2] - top_left[2] + 1
    IN  IF nx <= 0 \/ ny <= 0 THEN <<>>
        ELSE [i \in 1..(nx * ny) |->
                <<top_left[1] + ((i - 1) \div ny), top_left[2] + ((i - 1) % ny)>>]

\* the coordinates of get_rectangle: x outer, y inner, both ranges half-open
get_rectangle(top_left, bottom_right) ==
    LET nx == bottom_right[1] - top_left[1]
        ny == bottom_right[2] - top_left[2]
    IN  IF nx <= 0 \/ ny <= 0 THEN <<>>
        ELSE [i \in 1..(nx * ny) |->
                <<top_left[1] + ((i - 1) \div ny), top_left[2] + ((i - 1) % ny)>>]

\* the validity test of get_neighbor
Degenerate(v1, v2, v3) ==
    \/ v1 = v2
    \/ v2 = v3
    \/ v1 = v3
    \/ (v1[1] = v2[1] /\ v2[1] = v3[1])
    \/ (v1[2] = v2[2] /\ v2[2] = v3[2])

\* x > y for finite x, y
F64Gt(x, y) ==
    IF x.s # y.s THEN (x.s = 0 /\ ~(x.m = <<>> /\ y.m = <<>>))
    ELSE (1 - 2 * x.s) * NatCmp(NatShl(x.m, x.e - Min(x.e, y.e)),
                                NatShl(y.m, y.e - Min(x.e, y.e))) > 0

\* x >= y for finite x, y
F64Ge(x, y) ==
    IF x.s # y.s THEN (x.s = 0 \/ (x.m = <<>> /\ y.m = <<>>))
    ELSE (1 - 2 * x.s) * NatCmp(NatShl(x.m, x.e - Min(x.e, y.e)),
                                NatShl(y.m, y.e - Min(x.e, y.e))) >= 0

(***************************************************************************)
(* Cost.  A pixel is <<r, g, b>>, a cost is an f64.                        *)
(***************************************************************************)
\* a difference that compares each channel with the next one of the other pixel
pixel_difference_rotated(pixel1, pixel2) ==
    Abs(pixel1[1] - pixel2[2]) + Abs(pixel1[2] - pixel2[3]) + Abs(pixel1[3] - pixel2[1])

pixel_difference(pixel1, pixel2) ==
    Abs(pixel1[1] - pixel2[1]) + Abs(pixel1[2] - pixel2[2]) + Abs(pixel1[3] - pixel2[3])

\* image.len() and image[0].len()
Width(img) == Cardinality(DOMAIN img)

Height(img) == Cardinality(DOMAIN img[0])

\* ((s as f64 * s as f64) / ((w * h * 3) as f64)).sqrt()
Dist(sum, w, h) == F64Sqrt(F64DivSmall(F64Mul(sum, sum), w * h * 3))

\* (previous_cost * previous_cost * (w * h * 3) as f64).sqrt()
RestoreSum(previous_cost, w, h) ==
    F64Sqrt(F64Mul(F64Mul(previous_cost, previous_cost), F64FromInt(w * h * 3)))

\* the sum of pixel_difference over the first k pixels in x-major order
RECURSIVE DifferenceSum(_, _, _, _)
DifferenceSum(orig, generated, h, k) ==
    IF k = 0 THEN 0
    ELSE pixel_difference(orig[(k - 1) \div h][(k - 1) % h],
                          generated[(k - 1) \div h][(k - 1) % h])
         + DifferenceSum(orig, generated, h, k - 1)

get_cost(orig, generated) ==
    LET w == Width(orig)
        h == Height(orig)
    IN  Dist(F64FromInt(DifferenceSum(orig, generated, h, w * h)), w, h)

None == [some |-> FALSE, n |-> 0]

Some(n) == [some |-> TRUE, n |-> n]

\* (0..n).map(|i| (i as f64 * dx) as usize) with dx = (len - 1) as f64 / (n - 1) as f64,
\* as a sequence indexed from 1; n - 1 has wrapped when n = 0 and the range is empty
sample_indices(len, n) ==
    LET dx == F64DivInt(len - 1, n - 1)
    IN  [i \in 1..n |-> F64ToUsize(F64Mul(F64FromInt(i - 1), dx))]

(***************************************************************************)
(* Bounds of the model                                                     *)
(***************************************************************************)
\* anneal runs on every image of at most MaxWidth x MaxHeight pixels
MaxWidth == 2

MaxHeight == 3

\* get_neighbor is called on every image of at most MaxSide x MaxSide pixels
MaxSide == 3

\* reference images per size
NumRefs == 2

\* anneal runs with sample = None and Some(0) .. Some(MaxSample)
MaxSample == 2

PaletteSeq == <<<<0, 0, 0>>, <<255, 255, 255>>>>

\* the colors that random() draws, and that reference images are made of
Palette == {PaletteSeq[i] : i \in 1..Len(PaletteSeq)}

Black == <<0, 0, 0>>

Dims(maxw, maxh) == (1..maxw) \X (1..maxh)

Points(w, h) == (0..(w - 1)) \X (0..(h - 1))

\* pixel i of reference image k: uniform for even k, striped for odd k
RefPixel(k, i) ==
    IF k % 2 = 0 THEN PaletteSeq[((k \div 2 + 1) % Len(PaletteSeq)) + 1]
    ELSE PaletteSeq[((i + k \div 2) % Len(PaletteSeq)) + 1]

\* reference image number k of size w x h
RefImage(w, h, k) == [x \in 0..(w - 1) |-> [y \in 0..(h - 1) |-> RefPixel(k, x * h + y)]]

\* vec![vec![Rgb([0, 0, 0]); h]; w]
BlackImage(w, h) == [x \in 0..(w - 1) |-> [y \in 0..(h - 1) |-> Black]]

(***************************************************************************)
(* update_cost                                                             *)
(***************************************************************************)
\* update_cost is called on the columns of a LongSide x LongSide image, with up to
\* MaxN samples
LongSide == 4

MaxN == 13

\* sample_indices tabulated for 1 <= n < len <= MaxLen, n <= MaxN
MaxLen == LongSide * LongSide

IndexTable ==
    [p \in {q \in (1..MaxLen) \X (1..MaxN) : q[2] < q[1]} |-> sample_indices(p[1], p[2])]
    @@ <<>>

\* the positions (from 1) of the coordinates that update_cost reads
Selection(len, smp) ==
    IF smp.some /\ smp.n < len
    THEN [i \in 1..smp.n |-> IndexTable[<<len, smp.n>>][i] + 1]
    ELSE [i \in 1..len |-> i]

InBounds(img, p) == p[1] \in DOMAIN img /\ p[2] \in DOMAIN img[0]

\* an update that subtracts nothing for the pixels it replaces
OldSumSkipped(orig, annealed, cs, sel, j) == 0

\* sum over the selected coordinates of the difference between the original pixel
\* and the annealed pixel
RECURSIVE OldSum(_, _, _, _, _)
OldSum(orig, annealed, cs, sel, j) ==
    IF j = 0 THEN 0
    ELSE pixel_difference(orig[cs[sel[j]][1]][cs[sel[j]][2]],
                          annealed[cs[sel[j]][1]][cs[sel[j]][2]])
         + OldSum(orig, annealed, cs, sel, j - 1)

\* sum over the selected coordinates of the difference between the original pixel
\* and the new color
RECURSIVE NewSum(_, _, _, _, _)
NewSum(orig, color, cs, sel, j) ==
    IF j = 0 THEN 0
    ELSE pixel_difference(orig[cs[sel[j]][1]][cs[sel[j]][2]], color)
         + NewSum(orig, color, cs, sel, j - 1)

\* the body of update_cost past its guards, sel the positions it reads
UpdateSelected(previous_cost, orig, annealed, cs, color, sel) ==
    IF \E j \in 1..Len(sel) : ~InBounds(orig, cs[sel[j]])
    THEN [panic |-> TRUE, cost |-> previous_cost]
    ELSE [panic |-> FALSE,
          cost  |-> Dist(F64Add(F64Sub(RestoreSum(previous_cost, Width(orig), Height(orig)),
                                       F64FromInt(OldSum(orig, annealed, cs, sel, Len(sel)))),
                                F64FromInt(NewSum(orig, color, cs, sel, Len(sel)))),
                         Width(orig), Height(orig))]

\* update_cost without its early return for an empty coords
update_cost_unguarded(previous_cost, orig, annealed, cs, color, smp, checks) ==
    IF smp.some /\ smp.n = 0 /\ checks THEN [panic |-> TRUE, cost |-> previous_cost]
    ELSE UpdateSelected(previous_cost, orig, annealed, cs, color, Selection(Len(cs), smp))

\* [panic, cost]: whether the call panics, and the cost it returns otherwise.
\* checks: the build checks integer overflow (a debug build), so that n - 1 panics
\* for n = 0 where a release build wraps.
update_cost(previous_cost, orig, annealed, cs, color, smp, checks) ==
    IF Len(cs) = 0 THEN [panic |-> FALSE, cost |-> previous_cost]
    ELSE IF smp.some /\ smp.n = 0 /\ checks THEN [panic |-> TRUE, cost |-> previous_cost]
    ELSE UpdateSelected(previous_cost, orig, annealed, cs, color, Selection(Len(cs), smp))

(***************************************************************************)
(* anneal                                                                  *)
(***************************************************************************)
initial_temp == F64FromInt(1000)

final_temp == F64DivInt(1, 1000)

\* the argument --alpha p/q and the f64 it is parsed to
Alpha(p, q) == [frac |-> <<p, q>>, f64 |-> F64DivInt(p, q)]

\* for (x, y) in coords { image[x][y] = new_color }
Paint(img, cs, color) ==
    [x \in DOMAIN img |-> [y \in DOMAIN img[x] |->
        IF \E i \in 1..Len(cs) : cs[i] = <<x, y>> THEN color ELSE img[x][y]]]

AllInBounds(img, cs) == \A i \in 1..Len(cs) : InBounds(img, cs[i])

\* the vertex triples that pass the test of get_neighbor on a w x h image
Triples(w, h) ==
    {v \in Points(w, h) \X Points(w, h) \X Points(w, h) : ~Degenerate(v[1], v[2], v[3])}

\* the vertex triples that fail it
DegenerateTriples(w, h) ==
    {v \in Points(w, h) \X Points(w, h) \X Points(w, h) : Degenerate(v[1], v[2], v[3])}

\* get_triangle tabulated for the images of at most MaxSide x MaxSide pixels
TriangleTable == [v \in Triples(MaxSide, MaxSide) |-> get_triangle(v)] @@ <<>>

\* exp(-x) is above 0.0 for x <= 745, so that a uniform draw can be below it
ExpPositive == F64FromInt(745)

\* exp(-x) is below 1.0 for x >= 2^-53, so that a uniform draw can reach it
ExpBelowOne == F64Round(0, <<1>>, -53)

\* cost_diff < 0.0 || random::<f64>() < (-cost_diff / current_temp).exp() can hold
AcceptPossible(cost_diff, temp) ==
    F64IsNegative(cost_diff) \/ F64Ge(F64Mul(temp, ExpPositive), cost_diff)

\* it can fail
RejectPossible(cost_diff, temp) ==
    F64IsPositive(cost_diff) /\ F64Ge(cost_diff, F64Mul(temp, ExpBelowOne))

\* the builds that differ on update_cost: with and without overflow checks where
\* n - 1 wraps
Builds(smp) == IF smp.some /\ smp.n = 0 THEN BOOLEAN ELSE {TRUE}

\* the state on entry to the loop of anneal, for the given sets of inputs
AnnealInit(dims, refs, alphas, samples, kinds) ==
    /\ \E d \in dims : \E k \in refs :
          /\ original_image = RefImage(d[1], d[2], k)
          /\ image = BlackImage(d[1], d[2])
    /\ cost = get_cost(original_image, image)
    /\ alpha \in alphas
    /\ triangle \in kinds
    /\ sample \in samples
    /\ current_temp = initial_temp
    /\ verts = <<>>
    /\ coords = <<>>
    /\ new_color = Black
    /\ neighbor_cost = F64Zero
    /\ accepted = FALSE
    /\ iters = 0
    /\ pc = "while"

Samples(maxn) == {None} \cup {Some(n) : n \in 0..maxn}

Init ==
    AnnealInit(Dims(MaxWidth, MaxHeight), 0..(NumRefs - 1), {Alpha(1, 10000)},
               Samples(MaxSample), BOOLEAN)

\* while current_temp >= final_temp
WhileContinue ==
    /\ pc = "while"
    /\ F64Ge(current_temp, final_temp)
    /\ pc' = "neighbor"
    /\ UNCHANGED <<original_image, image, alpha, triangle, sample, current_temp, cost,
                   verts, coords, new_color, neighbor_cost, accepted, iters>>

WhileExit ==
    /\ pc = "while"
    /\ ~F64Ge(current_temp, final_temp)
    /\ pc' = "done"
    /\ UNCHANGED <<original_image, image, alpha, triangle, sample, current_temp, cost,
                   verts, coords, new_color, neighbor_cost, accepted, iters>>

\* get_neighbor, rectangle branch
DrawRectangle ==
    /\ pc = "neighbor"
    /\ ~triangle
    /\ \E brx \in 1..Width(image), bry \in 1..Height(image) :
         \E tlx \in 0..(brx - 1), tly \in 0..(bry - 1) :
            coords' = get_rectangle(<<tlx, tly>>, <<brx, bry>>)
    /\ new_color' \in Palette
    /\ pc' = "cost"
    /\ UNCHANGED <<original_image, image, alpha, triangle, sample, current_temp, cost,
                   verts, neighbor_cost, accepted, iters>>

\* get_neighbor, triangle branch, the vertices pass the test
DrawTriangle ==
    /\ pc = "neighbor"
    /\ triangle
    /\ \E v \in Triples(Width(image), Height(image)) : coords' = TriangleTable[v]
    /\ new_color' \in Palette
    /\ pc' = "cost"
    /\ UNCHANGED <<original_image, image, alpha, triangle, sample, current_temp, cost,
                   verts, neighbor_cost, accepted, iters>>

\* get_neighbor, triangle branch, the vertices fail the test
DrawDegenerate ==
    /\ pc = "neighbor"
    /\ triangle
    /\ verts' \in DegenerateTriples(Width(image), Height(image))
    /\ pc' = "recurse"
    /\ UNCHANGED <<original_image, image, alpha, triangle, sample, current_temp, cost,
                   coords, new_color, neighbor_cost, accepted, iters>>

\* the recursive call get_neighbor(image, triangle)
Recurse ==
    /\ pc = "recurse"
    /\ verts' = <<>>
    /\ pc' = "neighbor"
    /\ UNCHANGED <<original_image, image, alpha, triangle, sample, current_temp, cost,
                   coords, new_color, neighbor_cost, accepted, iters>>

\* let neighbor_cost = update_cost(cost, original_image, &image, &coords, new_color, sample)
CallUpdateCost ==
    /\ pc = "cost"
    /\ \E checks \in Builds(sample) :
         LET r == update_cost(cost, original_image, image, coords, new_color, sample, checks)
         IN  /\ neighbor_cost' = r.cost
             /\ pc' = IF r.panic THEN "panic" ELSE "decide"
    /\ UNCHANGED <<original_image, image, alpha, triangle, sample, current_temp, cost,
                   verts, coords, new_color, accepted, iters>>

\* the acceptance test holds: cost = neighbor_cost and the commit loop
Accept ==
    /\ pc = "decide"
    /\ AcceptPossible(F64Sub(neighbor_cost, cost), current_temp)
    /\ cost' = neighbor_cost
    /\ image' = IF AllInBounds(image, coords) THEN Paint(image, coords, new_color) ELSE image
    /\ pc' = IF AllInBounds(image, coords) THEN "cool" ELSE "panic"
    /\ accepted' = TRUE
    /\ UNCHANGED <<original_image, alpha, triangle, sample, current_temp, verts, coords,
                   new_color, neighbor_cost, iters>>

\* a rejection that has already written the candidate to the image
RejectCommitting ==
    /\ pc = "decide"
    /\ RejectPossible(F64Sub(neighbor_cost, cost), current_temp)
    /\ image' = Paint(image, coords, new_color)
    /\ accepted' = FALSE
    /\ pc' = "cool"
    /\ UNCHANGED <<original_image, alpha, triangle, sample, current_temp, cost,
                   verts, coords, new_color, neighbor_cost, iters>>

\* the acceptance test fails
Reject ==
    /\ pc = "decide"
    /\ RejectPossible(F64Sub(neighbor_cost, cost), current_temp)
    /\ accepted' = FALSE
    /\ pc' = "cool"
    /\ UNCHANGED <<original_image, image, alpha, triangle, sample, current_temp, cost,
                   verts, coords, new_color, neighbor_cost, iters>>

\* current_temp *= alpha, the end of the loop body: its locals are dropped
Cool ==
    /\ pc = "cool"
    /\ current_temp' = F64Mul(current_temp, alpha.f64)
    /\ iters' = iters + 1
    /\ coords' = <<>>
    /\ new_color' = Black
    /\ neighbor_cost' = F64Zero
    /\ accepted' = FALSE
    /\ pc' = "while"
    /\ UNCHANGED <<original_image, image, alpha, triangle, sample, cost, verts>>

Next ==
    \/ WhileContinue
    \/ WhileExit
    \/ DrawRectangle
    \/ DrawTriangle
    \/ DrawDegenerate
    \/ Recurse
    \/ CallUpdateCost
    \/ Accept
    \/ Reject
    \/ Cool

Spec == Init /\ [][Next]_vars

(***************************************************************************)
(* Other runs of anneal, and calls of one function on its own.             *)
(***************************************************************************)
\* a third color, whose channels differ
CostColors == Palette \cup {<<200, 100, 50>>}

Images(w, h, colors) == [0..(w - 1) -> [0..(h - 1) -> colors]]

\* the state before a call of one function on the given arguments
CallInit(orig, img, prev, vs, cs, color, smp, kind, at) ==
    /\ original_image = orig
    /\ image = img
    /\ cost = prev
    /\ verts = vs
    /\ coords = cs
    /\ new_color = color
    /\ sample = smp
    /\ triangle = kind
    /\ alpha = Alpha(1, 2)
    /\ current_temp = initial_temp
    /\ neighbor_cost = F64Zero
    /\ accepted = FALSE
    /\ iters = 0
    /\ pc = at

\* anneal with the values of --alpha that take 3, 4, 7, 20 and 132 iterations
CoolAlphas == {Alpha(1, 1000), Alpha(1, 100), Alpha(1, 10), Alpha(1, 2), Alpha(9, 10)}

CoolInit ==
    \/ AnnealInit({<<1, 1>>}, 0..(NumRefs - 1), CoolAlphas, Samples(MaxSample), {FALSE})
    \/ AnnealInit({<<2, 2>>}, {1}, {Alpha(1, 1000)}, {None, Some(2)}, {TRUE})

SpecCool == CoolInit /\ [][Next]_vars

\* get_neighbor on its own, on every image of at most MaxSide x MaxSide pixels
NeighborInit ==
    \E d \in Dims(MaxSide, MaxSide) : \E kind \in BOOLEAN :
        CallInit(BlackImage(d[1], d[2]), BlackImage(d[1], d[2]), F64Zero, <<>>, <<>>,
                 Black, None, kind, "neighbor")

NextNeighbor ==
    \/ DrawRectangle
    \/ DrawTriangle
    \/ DrawDegenerate
    \/ Recurse

SpecNeighbor == NeighborInit /\ [][NextNeighbor]_vars

\* the call makes progress, and a draw that stays possible is made at some time
FairNeighbor == SpecNeighbor /\ WF_vars(NextNeighbor) /\ SF_vars(DrawTriangle)

\* get_cost is called on every pair of images of at most CostPixels pixels
CostPixels == 2

SmallDims(pixels) == {d \in Dims(pixels, pixels) : d[1] * d[2] <= pixels}

CostInit ==
    \E d \in SmallDims(CostPixels) :
        \E a \in Images(d[1], d[2], CostColors), b \in Images(d[1], d[2], CostColors) :
            CallInit(a, b, F64Zero, <<>>, <<>>, Black, None, FALSE, "call")

CallGetCost ==
    /\ pc = "call"
    /\ cost' = get_cost(original_image, image)
    /\ pc' = "returned"
    /\ UNCHANGED <<original_image, image, alpha, triangle, sample, current_temp, verts,
                   coords, new_color, neighbor_cost, accepted, iters>>

SpecCost == CostInit /\ [][CallGetCost]_vars

\* get_rectangle is called on every pair of points of 0..RectSide x 0..RectSide
RectSide == 3

RectInit ==
    \E tl \in Points(RectSide + 1, RectSide + 1), br \in Points(RectSide + 1, RectSide + 1) :
        CallInit(BlackImage(1, 1), BlackImage(1, 1), F64Zero, <<tl, br>>, <<>>,
                 Black, None, FALSE, "call")

CallGetRectangle ==
    /\ pc = "call"
    /\ coords' = get_rectangle(verts[1], verts[2])
    /\ new_color' \in Palette
    /\ pc' = "returned"
    /\ UNCHANGED <<original_image, image, alpha, triangle, sample, current_temp, cost,
                   verts, neighbor_cost, accepted, iters>>

SpecRect == RectInit /\ [][CallGetRectangle]_vars

\* get_triangle is called on every triple of points of a TriWidth x TriHeight image
\* that passes the test of get_neighbor
TriWidth == 4

TriHeight == 6

TriInit ==
    \E v \in Triples(TriWidth, TriHeight) :
        CallInit(BlackImage(1, 1), BlackImage(1, 1), F64Zero, v, <<>>,
                 Black, None, TRUE, "call")

CallGetTriangle ==
    /\ pc = "call"
    /\ coords' = get_triangle(verts)
    /\ new_color' \in Palette
    /\ pc' = "returned"
    /\ UNCHANGED <<original_image, image, alpha, triangle, sample, current_temp, cost,
                   verts, neighbor_cost, accepted, iters>>

SpecTri == TriInit /\ [][CallGetTriangle]_vars

\* update_cost is called with the cost of the image and with two other costs
PreviousCosts(orig, img) == {get_cost(orig, img), F64DivInt(1, 3), F64FromInt(7)}

\* every rectangle of a w x h image, the empty ones included
Rectangles(w, h) ==
    {get_rectangle(tl, br) : tl \in Points(w + 1, h + 1), br \in Points(w + 1, h + 1)}

\* update_cost is called on every image of at most UpdatePixels pixels
UpdatePixels == 2

ShortCalls ==
    \E d \in SmallDims(UpdatePixels) : \E k \in 0..(NumRefs - 1) :
        \E img \in Images(d[1], d[2], Palette) :
            \E prev \in PreviousCosts(RefImage(d[1], d[2], k), img) :
                \E cs \in Rectangles(d[1], d[2]) : \E color \in Palette :
                    \E smp \in Samples(MaxSample) :
                        CallInit(RefImage(d[1], d[2], k), img, prev, <<>>, cs, color, smp,
                                 FALSE, "cost")

\* the first columns of a black LongSide x LongSide image
LongCalls ==
    \E k \in 0..(NumRefs - 1) : \E bx \in 1..LongSide : \E color \in Palette :
        \E n \in 0..MaxN :
            CallInit(RefImage(LongSide, LongSide, k), BlackImage(LongSide, LongSide),
                     get_cost(RefImage(LongSide, LongSide, k), BlackImage(LongSide, LongSide)),
                     <<>>, get_rectangle(<<0, 0>>, <<bx, LongSide>>), color, Some(n),
                     FALSE, "cost")

UpdateInit == ShortCalls \/ LongCalls

SpecUpdate == UpdateInit /\ [][CallUpdateCost]_vars

(***************************************************************************)
(* Properties                                                              *)
(***************************************************************************)
Range(s) == {s[i] : i \in 1..Len(s)}

F64Abs(x) == [x EXCEPT !.s = 0]

\* 1e-6
Tolerance == F64Mul(F64DivInt(1, 1000), F64DivInt(1, 1000))

\* |a - b| <= 1e-6 * (1 + b)
CostClose(a, b) ==
    F64Ge(F64Mul(Tolerance, F64Add(F64FromInt(1), b)), F64Abs(F64Sub(a, b)))

\* C1, as stated: with sample = None, in every state of anneal the running cost is
\* equal to get_cost(original_image, image).
C1_RunningCostExact ==
    sample = None => cost = get_cost(original_image, image)

\* C1: with sample = None, in every state of anneal the running cost is equal to
\* get_cost(original_image, image) up to the rounding of the f64 operations: they
\* differ by at most 1e-6 * (1 + get_cost(original_image, image)).
C1_RunningCostClose ==
    sample = None => CostClose(cost, get_cost(original_image, image))

\* anneal has ended on an image it has painted, and its running cost is not the
\* f64 that get_cost returns
C1_RunningCostDrifted ==
    /\ sample = None
    /\ pc = "done"
    /\ image # BlackImage(Width(image), Height(image))
    /\ cost # get_cost(original_image, image)

\* the least k with 10^6 * p^k < q^k, both sides carried as naturals
RECURSIVE LeastKFrom(_, _, _, _, _)
LeastKFrom(p, q, k, P, Q) ==
    IF NatCmp(P, Q) < 0 THEN k
    ELSE LeastKFrom(p, q, k + 1, NatMulSmall(P, p), NatMulSmall(Q, q))

\* the least k with 1000 * (p/q)^k < 1/1000
LeastK(a) == LeastKFrom(a[1], a[2], 0, NatOfInt(1000000), <<1>>)

\* the temperature changes with the end of an iteration, and there it is
\* multiplied by alpha
CoolsOncePerIteration ==
    \/ iters' = iters + 1 /\ current_temp' = F64Mul(current_temp, alpha.f64)
    \/ iters' = iters /\ current_temp' = current_temp

\* C2: anneal starts at temperature 1000, multiplies the temperature by alpha once
\* per iteration, and ends after k iterations, k the least integer with
\* 1000 * alpha^k < 0.001, whatever the outcomes, the shape kind and the sample.
C2_IterationCount ==
    /\ [](iters = 0 => current_temp = F64FromInt(1000))
    /\ [](pc = "done" => iters = LeastK(alpha.frac))
    /\ [][CoolsOncePerIteration]_vars

\* anneal with alpha = 0.9 has ended after 132 iterations, some candidate accepted
C2_LongRunEnded ==
    /\ pc = "done"
    /\ alpha.frac = <<9, 10>>
    /\ iters = 132
    /\ image # BlackImage(Width(image), Height(image))

\* C3: get_cost returns a value >= 0, and get_cost(A, A) = 0.
C3_CostNonNegative ==
    pc = "returned" =>
        /\ cost.k = "fin"
        /\ ~F64IsNegative(cost)
        /\ (original_image = image => cost = F64Zero)

\* get_cost has returned 0 for two equal images that are not black, and a
\* positive value for two different images
C3_CostOfEqualImages ==
    /\ pc = "returned"
    /\ original_image = image
    /\ image[0][0] = <<200, 100, 50>>
    /\ cost = F64Zero

\* C4: update_cost with an empty coords returns previous_cost, for every
\* previous_cost, every new color and every sample, Some(0) and Some(1) included.
C4_EmptyCoordsNoOp ==
    (pc \in {"decide", "panic"} /\ coords = <<>>) =>
        (pc = "decide" /\ neighbor_cost = cost)

\* update_cost has returned for an empty coords, Some(0) and a previous cost
\* that is not the cost of the image
C4_EmptyCoordsSampleZero ==
    /\ pc = "decide"
    /\ coords = <<>>
    /\ sample = Some(0)
    /\ cost = F64DivInt(1, 3)
    /\ neighbor_cost = cost

\* C5: for top_left <= bottom_right componentwise, get_rectangle returns
\* (bottom_right.x - top_left.x) * (bottom_right.y - top_left.y) coordinates,
\* pairwise distinct, each within [top_left, bottom_right); a rectangle of zero
\* width or height yields the empty sequence.
C5_RectangleCoordinates ==
    (pc = "returned" /\ verts[1][1] <= verts[2][1] /\ verts[1][2] <= verts[2][2]) =>
        /\ Len(coords) = (verts[2][1] - verts[1][1]) * (verts[2][2] - verts[1][2])
        /\ \A i \in 1..Len(coords) : \A j \in 1..Len(coords) :
               i # j => coords[i] # coords[j]
        /\ \A i \in 1..Len(coords) :
               /\ verts[1][1] <= coords[i][1] /\ coords[i][1] < verts[2][1]
               /\ verts[1][2] <= coords[i][2] /\ coords[i][2] < verts[2][2]
        /\ (verts[1][1] = verts[2][1] \/ verts[1][2] = verts[2][2]) => coords = <<>>

\* get_rectangle has returned the six coordinates of a 2 x 3 rectangle
C5_RectangleReturned ==
    /\ pc = "returned"
    /\ verts = <<<<1, 0>>, <<3, 3>>>>
    /\ Len(coords) = 6

\* twice the signed area of the triangle (a, b, p)
Cross(a, b, p) == (b[1] - a[1]) * (p[2] - a[2]) - (b[2] - a[2]) * (p[1] - a[1])

SameSide(d1, d2, d3) == (d1 > 0 /\ d2 > 0 /\ d3 > 0) \/ (d1 < 0 /\ d2 < 0 /\ d3 < 0)

\* p lies strictly inside the triangle v
StrictlyInside(p, v) ==
    SameSide(Cross(v[1], v[2], p), Cross(v[2], v[3], p), Cross(v[3], v[1], p))

\* C6, as stated: the sequence returned by get_triangle contains every integer
\* point that lies strictly inside the triangle.
C6_InteriorCovered ==
    pc = "returned" =>
        \A p \in Points(TriWidth, TriHeight) :
            StrictlyInside(p, verts) => p \in Range(coords)

\* get_triangle has returned for (0,0), (0,1), (3,5) without the point (1,2)
C6_InteriorPointMissed ==
    /\ pc = "returned"
    /\ verts = <<<<0, 0>>, <<0, 1>>, <<3, 5>>>>
    /\ StrictlyInside(<<1, 2>>, verts)
    /\ <<1, 2>> \notin Range(coords)

\* C7: every coordinate (x, y) returned by get_neighbor has 0 <= x < W and
\* 0 <= y < H, for either shape kind.
C7_CoordsInCanvas ==
    pc = "cost" =>
        \A i \in 1..Len(coords) :
            /\ 0 <= coords[i][1] /\ coords[i][1] < Width(image)
            /\ 0 <= coords[i][2] /\ coords[i][2] < Height(image)

\* get_neighbor has returned a split triangle that reaches the last column and
\* the last row of a 3 x 3 image
C7_TriangleAtEdge ==
    /\ pc = "cost"
    /\ triangle
    /\ Width(image) = 3
    /\ Height(image) = 3
    /\ \E i \in 1..Len(coords) : coords[i][1] = 2
    /\ \E i \in 1..Len(coords) : coords[i][2] = 2
    /\ \E i \in 1..Len(coords) : coords[i][2] = 0

\* image' is image with new_color at the coordinates of coords
Committed ==
    \A x \in DOMAIN image : \A y \in DOMAIN image[x] :
        image'[x][y] = IF <<x, y>> \in Range(coords) THEN new_color ELSE image[x][y]

\* the effect of one step of anneal on the images and the cost
FrameEffects ==
    /\ original_image' = original_image
    /\ (pc = "decide" /\ accepted') => (Committed /\ cost' = neighbor_cost)
    /\ (pc = "decide" /\ ~accepted') => (image' = image /\ cost' = cost)
    /\ (pc = "decide" /\ F64IsNegative(F64Sub(neighbor_cost, cost))) => accepted'
    /\ pc # "decide" => (image' = image /\ cost' = cost)

\* C8: the image and the cost change only where a candidate is accepted: on
\* reject both are unchanged, on accept every coordinate of coords holds
\* new_color, every other pixel is unchanged and cost is neighbor_cost; a
\* candidate with a negative cost_diff is accepted; original_image never changes.
C8_FrameEffects == [][FrameEffects]_vars

\* a candidate has been rejected in the second iteration, after one that was
\* accepted and has painted a part of the image
C8_RejectAfterAccept ==
    /\ pc = "cool"
    /\ ~accepted
    /\ iters = 1
    /\ image # BlackImage(Width(image), Height(image))
    /\ \E x \in DOMAIN image : \E y \in DOMAIN image[x] : image[x][y] = Black

\* C9, as stated: in triangle mode get_neighbor eventually returns a triangle that
\* passes the test, for every image with W > 0 and H > 0.
C9_GetNeighborReturns == (pc = "neighbor") ~> (pc = "cost")

\* the positions (from 1) of the indices floor(i * (len - 1) / (n - 1)), 2 <= n
LinearSpaced(len, n) ==
    IF n < len THEN [i \in 1..n |-> (((i - 1) * (len - 1)) \div (n - 1)) + 1]
    ELSE [i \in 1..len |-> i]

\* C10, as stated: for a coords of length L > 0 and sample = Some(n), update_cost
\* changes the sum by the differences at the indices floor(i * (L - 1) / (n - 1)),
\* i = 0 .. n - 1, when n < L, and at all L indices when n >= L.
C10_LinearSpacedUpdate ==
    (pc = "decide" /\ sample.some /\ sample.n >= 2 /\ coords # <<>>) =>
        neighbor_cost = UpdateSelected(cost, original_image, image, coords, new_color,
                                       LinearSpaced(Len(coords), sample.n)).cost

\* update_cost has panicked on n - 1 for Some(0) and a coords that is not empty
C10_SampleZeroPanics ==
    /\ pc = "panic"
    /\ sample = Some(0)
    /\ coords # <<>>

====
